---- MODULE Spec2Model ----
(***************************************************************************)
(* Model of the mind-map store (MindMapStore), its undo/redo history, its  *)
(* dirty tracking and the tree layout (LayoutService) it derives node      *)
(* positions from.                                                         *)
(*                                                                         *)
(* Representation choices                                                  *)
(*  - a node is a record [id, parentId, text, childrenIds, manualOffset];  *)
(*    the timestamps (createdAt/updatedAt), userId, mapId, order and       *)
(*    isExpanded never influence control flow and are left out;            *)
(*  - a Position is a pair <<x, y>>; an absent manualOffset (the key       *)
(*    missing, or present with the value undefined) is the empty tuple;    *)
(*  - a null id is the string "null";                                      *)
(*  - coordinates are fixed-point numbers counted in 1/Scale pixels, so    *)
(*    that the midpoints taken by the layout stay exact, as they do in     *)
(*    IEEE doubles.                                                        *)
(***************************************************************************)
EXTENDS Integers, Sequences, FiniteSets, TLC

\* ---------------------------------------------------------------- bounds
\* number of ids the id generator hands out in one session
MaxNew == 2
\* recorded mutations are only issued while past is shorter than this
MaxPast == 2
\* the same two bounds, for the specification of the tree operations alone
TreeNew == 3
TreePast == 4
\* the store is followed while no childrenIds sequence is longer than this
MaxKids == 3
\* number of mouse moves a pan of the canvas is followed for
MaxPans == 2
\* number of zoomIn and zoomOut calls a session is followed for
MaxZooms == 10
\* coordinates handed to the geometry functions range over -MaxCoord..MaxCoord
MaxCoord == 2

\* ------------------------------------------------------------- constants
NODE_WIDTH == 150
NODE_HEIGHT == 48
SPACING_X == 250
SPACING_Y == 70

Null == "null"
\* the value of a property that is missing or set to undefined
Undefined == "undefined"
\* a node style without any field
NoStyle == <<>>
NoOffset == <<>>
RootId == "r"
NewIds == {"n1", "n2", "n3", "n4", "n5"}
Ids == {RootId} \cup NewIds

\* the i-th id produced by generateId in a session
generateId(i) ==
  CASE i = 1 -> "n1" [] i = 2 -> "n2" [] i = 3 -> "n3" [] i = 4 -> "n4" [] OTHER -> "n5"

\* one pixel, in fixed-point units
Scale == 2 ^ (MaxNew + TreeNew)

Texts == {"New Node", "edited"}

\* mouse movements (dx, dy) of a pan
PanMoves == {<<40, -30>>}
\* the vectors a drag gesture moves a node by
Drags == {<<50 * Scale, (-20) * Scale>>}

\* ---------------------------------------------------------- JS numbers
\* the scale of the view is a fraction num/den in lowest terms; products
\* and quotients are exact
RECURSIVE GCD(_, _)
GCD(a, b) == IF b = 0 THEN a ELSE GCD(b, a % b)

Frac(n, d) == [num |-> n \div GCD(n, d), den |-> d \div GCD(n, d)]

\* common factors are taken out before the terms are multiplied
Times(a, b) ==
  Frac((a.num \div GCD(a.num, b.den)) * (b.num \div GCD(b.num, a.den)),
       (a.den \div GCD(b.num, a.den)) * (b.den \div GCD(a.num, b.den)))

Over(a, b) == Times(a, [num |-> b.den, den |-> b.num])

LessEq(a, b) ==
  (a.num \div GCD(a.num, b.num)) * (b.den \div GCD(a.den, b.den))
    <= (b.num \div GCD(a.num, b.num)) * (a.den \div GCD(a.den, b.den))

Math_min(a, b) == IF LessEq(a, b) THEN a ELSE b

Math_max(a, b) == IF LessEq(a, b) THEN b ELSE a

\* the scales a caller hands to updateView
ScaleInputs == {Frac(4, 1), Frac(2, 1), Frac(1, 10)}

VARIABLES
  currentMap,      \* rootNodeId of the loaded map, or Null
  nodes,           \* id -> node
  selectedNodeId,
  editingNodeId,
  past,            \* history.past
  future,          \* history.future
  dirtyNodeIds,
  deletedNodeIds,
  mapDirty,
  view,            \* the view transform [scale, panX, panY]
  idCounter,       \* number of ids generated since the map was loaded
  lastAct,         \* the call that produced this state
  zoomCalls,       \* number of zoomIn and zoomOut calls so far
  autoSave,        \* the fields of AutoSaveService and the position of performSave
  calc             \* arguments and result of a geometry function

storeVars == <<currentMap, nodes, selectedNodeId, editingNodeId, past, future,
               dirtyNodeIds, deletedNodeIds, mapDirty, view>>
vars == <<currentMap, nodes, selectedNodeId, editingNodeId, past, future,
          dirtyNodeIds, deletedNodeIds, mapDirty, view, idCounter, lastAct,
          zoomCalls, autoSave, calc>>

\* ------------------------------------------------------- finite mappings
Put(m, k, v) == [x \in DOMAIN m \cup {k} |-> IF x = k THEN v ELSE m[x]]
Remove(m, ks) == [x \in DOMAIN m \ ks |-> m[x]]
EmptyMap == [x \in {} |-> Null]

SeqToSet(s) == {s[i] : i \in 1..Len(s)}

\* parent.childrenIds.filter((id) => id !== nodeId)
FilterOut(s, id) == LET Keep(c) == c # id IN SelectSeq(s, Keep)

\* --------------------------------------------------------- LayoutService
\* layout[id]?.y ?? startY
yOrStart(layout, id, startY) ==
  IF id \in DOMAIN layout THEN layout[id][2] ELSE startY

\* the parent is centred between its first and its last child
centreParent(r, nodeId, x, firstId, lastId, startY) ==
  [height |-> r.height,
   layout |-> Put(r.layout, nodeId,
                  <<x, (yOrStart(r.layout, firstId, startY)
                        + yOrStart(r.layout, lastId, startY)) \div 2>>)]

\* a slip: a subtree takes half the room it needs
addChildHeightHalved(totalChildHeight, child) ==
  [height |-> totalChildHeight + child.height \div 2, layout |-> child.layout]

\* totalChildHeight += childHeight
addChildHeight(totalChildHeight, child) ==
  [height |-> totalChildHeight + child.height, layout |-> child.layout]

RECURSIVE layoutNode(_, _, _, _, _)
RECURSIVE layoutChild(_, _, _, _, _)

\* one turn of the for-loop over the children; done is the height and the
\* layout after the children before this one
layoutChild(ns, childId, depth, startY, done) ==
  addChildHeight(done.height,
                 layoutNode(ns, childId, depth, startY + done.height,
                            done.layout))

\* returns the height of the subtree together with the layout filled in
layoutNode(ns, nodeId, depth, startY, layout) ==
  IF nodeId \notin DOMAIN ns THEN [height |-> 0, layout |-> layout]
  ELSE
    LET Present(c) == c \in DOMAIN ns
        children == SelectSeq(ns[nodeId].childrenIds, Present)
        x == depth * SPACING_X * Scale
        after[i \in 0..Len(children)] ==
          IF i = 0 THEN [height |-> 0, layout |-> layout]
          ELSE layoutChild(ns, children[i], depth + 1, startY, after[i - 1])
    IN IF Len(children) = 0
       THEN [height |-> (NODE_HEIGHT + SPACING_Y) * Scale,
             layout |-> Put(layout, nodeId, <<x, startY>>)]
       ELSE centreParent(after[Len(children)], nodeId, x, children[1],
                         children[Len(children)], startY)

\* a slip: a root that is not in the mapping is placed all the same
computeLayoutOfMissingRoot(ns, rootId) ==
  IF rootId = Null THEN EmptyMap
  ELSE IF rootId \notin DOMAIN ns
  THEN Put(EmptyMap, rootId, <<-((NODE_WIDTH * Scale) \div 2),
                               -((NODE_HEIGHT * Scale) \div 2)>>)
  ELSE
    LET layout == layoutNode(ns, rootId, 0, 0, EmptyMap).layout
        offsetX == layout[rootId][1] + (NODE_WIDTH * Scale) \div 2
        offsetY == layout[rootId][2] + (NODE_HEIGHT * Scale) \div 2
    IN [id \in DOMAIN layout |->
          <<layout[id][1] - offsetX, layout[id][2] - offsetY>>]

\* a slip: the positions are left where the traversal put them
computeLayoutUncentred(ns, rootId) ==
  IF rootId = Null \/ rootId \notin DOMAIN ns THEN EmptyMap
  ELSE layoutNode(ns, rootId, 0, 0, EmptyMap).layout

\* a slip: the manual offset of a node is added in the layout pass
computeLayoutWithOffsets(ns, rootId) ==
  IF rootId = Null \/ rootId \notin DOMAIN ns THEN EmptyMap
  ELSE
    LET layout == layoutNode(ns, rootId, 0, 0, EmptyMap).layout
        offsetX == layout[rootId][1] + (NODE_WIDTH * Scale) \div 2
        offsetY == layout[rootId][2] + (NODE_HEIGHT * Scale) \div 2
    IN [id \in DOMAIN layout |->
          IF ns[id].manualOffset = <<>>
          THEN <<layout[id][1] - offsetX, layout[id][2] - offsetY>>
          ELSE <<layout[id][1] - offsetX + ns[id].manualOffset[1],
                 layout[id][2] - offsetY + ns[id].manualOffset[2]>>]

computeLayout(ns, rootId) ==
  IF rootId = Null \/ rootId \notin DOMAIN ns THEN EmptyMap
  ELSE
    LET layout == layoutNode(ns, rootId, 0, 0, EmptyMap).layout
        offsetX == layout[rootId][1] + (NODE_WIDTH * Scale) \div 2
        offsetY == layout[rootId][2] + (NODE_HEIGHT * Scale) \div 2
    IN [id \in DOMAIN layout |->
          <<layout[id][1] - offsetX, layout[id][2] - offsetY>>]

\* a slip: the manual offset is left out
getFinalPositionWithoutOffset(computedPos, manualOffset) ==
  IF computedPos = <<>> THEN <<0, 0>> ELSE computedPos

\* computedPos is <<>> when the node has no computed position
getFinalPosition(computedPos, manualOffset) ==
  IF computedPos = <<>> THEN <<0, 0>>
  ELSE IF manualOffset = NoOffset THEN computedPos
  ELSE <<computedPos[1] + manualOffset[1], computedPos[2] + manualOffset[2]>>

calculateOffset(computedPos, newPos) ==
  <<newPos[1] - computedPos[1], newPos[2] - computedPos[2]>>

Abs(x) == IF x < 0 THEN -x ELSE x

\* a slip: a tie goes to the vertical pair
getAnchorEdgesTieVertical(parentPos, childPos) ==
  LET dx == (childPos[1] + NODE_WIDTH \div 2) - (parentPos[1] + NODE_WIDTH \div 2)
      dy == (childPos[2] + NODE_HEIGHT \div 2) - (parentPos[2] + NODE_HEIGHT \div 2)
  IN IF Abs(dx) > Abs(dy)
     THEN IF dx >= 0 THEN [parentAnchor |-> "right", childAnchor |-> "left"]
          ELSE [parentAnchor |-> "left", childAnchor |-> "right"]
     ELSE IF dy >= 0 THEN [parentAnchor |-> "bottom", childAnchor |-> "top"]
          ELSE [parentAnchor |-> "top", childAnchor |-> "bottom"]

getAnchorEdges(parentPos, childPos) ==
  LET parentCenterX == parentPos[1] + NODE_WIDTH \div 2
      parentCenterY == parentPos[2] + NODE_HEIGHT \div 2
      childCenterX == childPos[1] + NODE_WIDTH \div 2
      childCenterY == childPos[2] + NODE_HEIGHT \div 2
      dx == childCenterX - parentCenterX
      dy == childCenterY - parentCenterY
  IN IF Abs(dx) >= Abs(dy)
     THEN IF dx >= 0 THEN [parentAnchor |-> "right", childAnchor |-> "left"]
          ELSE [parentAnchor |-> "left", childAnchor |-> "right"]
     ELSE IF dy >= 0 THEN [parentAnchor |-> "bottom", childAnchor |-> "top"]
          ELSE [parentAnchor |-> "top", childAnchor |-> "bottom"]

\* ------------------------------------------------- derived store signals
computedLayout(s) == computeLayout(s.nodes, s.currentMap)

LayoutAt(layout, id) == IF id \in DOMAIN layout THEN layout[id] ELSE <<>>

nodePositions(s) ==
  LET layout == computedLayout(s)
  IN [id \in DOMAIN s.nodes |->
        getFinalPosition(LayoutAt(layout, id), s.nodes[id].manualOffset)]

\* a slip: nothing is collected
noDescendantIds(nodeId, ns) == <<>>

RECURSIVE getDescendantIds(_, _)
getDescendantIds(nodeId, ns) ==
  IF nodeId \notin DOMAIN ns THEN <<>>
  ELSE
    LET kids == ns[nodeId].childrenIds
        F[i \in 0..Len(kids)] ==
          IF i = 0 THEN <<>>
          ELSE F[i - 1] \o <<kids[i]>> \o getDescendantIds(kids[i], ns)
    IN F[Len(kids)]

\* ------------------------------------------------------------ the store
\* the signals of the store, as one value
Store == [currentMap |-> currentMap, nodes |-> nodes,
          selectedNodeId |-> selectedNodeId, editingNodeId |-> editingNodeId,
          past |-> past, future |-> future,
          dirtyNodeIds |-> dirtyNodeIds, deletedNodeIds |-> deletedNodeIds,
          mapDirty |-> mapDirty, view |-> view]

DEFAULT_VIEW == [scale |-> Frac(1, 1), panX |-> 0, panY |-> 0]

INITIAL_STATE ==
  [currentMap |-> Null, nodes |-> EmptyMap,
   selectedNodeId |-> Null, editingNodeId |-> Null,
   past |-> <<>>, future |-> <<>>,
   dirtyNodeIds |-> {}, deletedNodeIds |-> {}, mapDirty |-> FALSE,
   view |-> DEFAULT_VIEW]

MkNode(id, parentId, text, childrenIds, manualOffset) ==
  [id |-> id, parentId |-> parentId, text |-> text,
   childrenIds |-> childrenIds, manualOffset |-> manualOffset,
   style |-> NoStyle]

\* { ...node, ...updates }
Merge(node, updates) ==
  LET Pick(f) == IF f \in DOMAIN updates THEN updates[f] ELSE node[f]
  IN [MkNode(Pick("id"), Pick("parentId"), Pick("text"),
             Pick("childrenIds"), Pick("manualOffset"))
        EXCEPT !.style = Pick("style")]

markNodeDirty(s, nodeId) ==
  [s EXCEPT !.dirtyNodeIds = @ \cup {nodeId}]

markNodesDirty(s, nodeIds) ==
  [s EXCEPT !.dirtyNodeIds = @ \cup SeqToSet(nodeIds)]

\* a slip: a deleted id stays in the dirty set
markNodeDeletedStillDirty(s, nodeId) ==
  [s EXCEPT !.deletedNodeIds = @ \cup {nodeId}]

markNodeDeleted(s, nodeId) ==
  [s EXCEPT !.deletedNodeIds = @ \cup {nodeId},
            !.dirtyNodeIds = @ \ {nodeId}]

markMapDirty(s) == [s EXCEPT !.mapDirty = TRUE]

hasPendingChanges(s) ==
  s.dirtyNodeIds # {} \/ s.deletedNodeIds # {} \/ s.mapDirty

clearDirtyState(s) ==
  [s EXCEPT !.dirtyNodeIds = {}, !.deletedNodeIds = {}, !.mapDirty = FALSE]

\* nodesToDelete.forEach((id) => this.markNodeDeleted(id))
RECURSIVE markAllDeleted(_, _)
markAllDeleted(s, ids) ==
  IF ids = <<>> THEN s
  ELSE markAllDeleted(markNodeDeleted(s, Head(ids)), Tail(ids))

\* a slip: the view and the history of the previous document survive
loadMapKeepingView(s, rootId, ns) ==
  clearDirtyState([s EXCEPT !.currentMap = rootId, !.nodes = ns,
                            !.selectedNodeId = Null, !.editingNodeId = Null])

loadMap(s, rootId, ns) ==
  clearDirtyState([s EXCEPT !.currentMap = rootId, !.nodes = ns,
                            !.selectedNodeId = Null, !.editingNodeId = Null,
                            !.past = <<>>, !.future = <<>>,
                            !.view = DEFAULT_VIEW])

clearMap(s) == clearDirtyState(INITIAL_STATE)

selectNode(s, nodeId) ==
  [s EXCEPT !.selectedNodeId = nodeId, !.editingNodeId = Null]

startEditing(s, nodeId) ==
  [s EXCEPT !.selectedNodeId = nodeId, !.editingNodeId = nodeId]

stopEditing(s) == [s EXCEPT !.editingNodeId = Null]

\* { ...state.view, ...transform }
updateView(s, transform) ==
  LET Pick(f) == IF f \in DOMAIN transform THEN transform[f] ELSE s.view[f]
  IN [s EXCEPT !.view = [scale |-> Pick("scale"), panX |-> Pick("panX"),
                         panY |-> Pick("panY")]]

resetView(s) == [s EXCEPT !.view = DEFAULT_VIEW]

\* a slip: the product is stored as it is
zoomInUnclamped(s) ==
  [s EXCEPT !.view.scale = Times(@, Frac(12, 10))]

\* Math.min(state.view.scale * 1.2, 3)
zoomIn(s) ==
  [s EXCEPT !.view.scale = Math_min(Times(@, Frac(12, 10)), Frac(3, 1))]

\* Math.max(state.view.scale / 1.2, 0.3)
zoomOut(s) ==
  [s EXCEPT !.view.scale = Math_max(Over(@, Frac(12, 10)), Frac(3, 10))]

\* a slip: a recorded mutation keeps the future stack
futureKept(stack, skipHistory) == stack

\* history.future of newHistory: untouched in a replay, emptied otherwise
newFuture(stack, skipHistory) == IF skipHistory THEN stack ELSE <<>>

\* a slip: the new id is put in front of its siblings
withChildFirst(childrenIds, id) == <<id>> \o childrenIds

\* [...parent.childrenIds, node.id]
withChild(childrenIds, id) == Append(childrenIds, id)

addNode(s, node, skipHistory) ==
  LET withNode == Put(s.nodes, node.id, node)
      newNodes ==
        IF node.parentId # Null /\ node.parentId \in DOMAIN s.nodes
        THEN Put(withNode, node.parentId,
                 [s.nodes[node.parentId] EXCEPT
                    !.childrenIds = withChild(@, node.id)])
        ELSE withNode
      s1 == [s EXCEPT
               !.nodes = newNodes,
               !.past = IF skipHistory THEN @
                        ELSE Append(@, [type |-> "ADD_NODE", node |-> node]),
               !.future = newFuture(@, skipHistory),
               !.selectedNodeId = node.id]
      s2 == markNodeDirty(s1, node.id)
      s3 == IF node.parentId # Null THEN markNodeDirty(s2, node.parentId)
            ELSE s2
  IN markMapDirty(s3)

\* deleteNode past its guard: nodeId is in the mapping
deleteExisting(s, nodeId, skipHistory) ==
    LET node == s.nodes[nodeId]
        nodesToDelete == Append(getDescendantIds(nodeId, s.nodes), nodeId)
        parentId == node.parentId
        spliced ==
          IF parentId \in DOMAIN s.nodes
          THEN Put(s.nodes, parentId,
                   [s.nodes[parentId] EXCEPT
                      !.childrenIds = FilterOut(@, nodeId)])
          ELSE s.nodes
        s1 == [s EXCEPT
                 !.nodes = Remove(spliced, SeqToSet(nodesToDelete)),
                 !.past = IF skipHistory THEN @
                          ELSE Append(@, [type |-> "DELETE_NODE",
                                          node |-> node,
                                          parentId |-> node.parentId]),
                 !.future = newFuture(@, skipHistory),
                 !.selectedNodeId = parentId]
        s2 == markAllDeleted(s1, nodesToDelete)
    IN markMapDirty(markNodeDirty(s2, parentId))

\* a slip: the guard misses the root test (!node.parentId)
deleteNodeUnguarded(s, nodeId, skipHistory) ==
  IF nodeId \notin DOMAIN s.nodes THEN s
  ELSE deleteExisting(s, nodeId, skipHistory)

deleteNode(s, nodeId, skipHistory) ==
  IF nodeId \notin DOMAIN s.nodes THEN s
  ELSE IF s.nodes[nodeId].parentId = Null THEN s
  ELSE deleteExisting(s, nodeId, skipHistory)

\* updateNode past its guard: nodeId is in the mapping
\* a slip: every update asks for a new preview
updateExistingWithPreview(s, nodeId, updates, skipHistory) ==
    LET node == s.nodes[nodeId]
        s1 == [s EXCEPT
                 !.nodes = Put(@, nodeId, Merge(node, updates)),
                 !.past = IF skipHistory THEN @
                          ELSE Append(@, [type |-> "UPDATE_NODE",
                                          nodeId |-> nodeId,
                                          before |-> node,
                                          after |-> updates]),
                 !.future = newFuture(@, skipHistory)]
    IN markMapDirty(markNodeDirty(s1, nodeId))

updateExisting(s, nodeId, updates, skipHistory) ==
    LET node == s.nodes[nodeId]
        s1 == [s EXCEPT
                 !.nodes = Put(@, nodeId, Merge(node, updates)),
                 !.past = IF skipHistory THEN @
                          ELSE Append(@, [type |-> "UPDATE_NODE",
                                          nodeId |-> nodeId,
                                          before |-> node,
                                          after |-> updates]),
                 !.future = newFuture(@, skipHistory)]
        s2 == markNodeDirty(s1, nodeId)
    IN IF "text" \in DOMAIN updates THEN markMapDirty(s2) ELSE s2

\* a slip: an unknown id is marked dirty before the call returns
updateNodeMarkingFirst(s, nodeId, updates, skipHistory) ==
  IF nodeId \notin DOMAIN s.nodes THEN markNodeDirty(s, nodeId)
  ELSE updateExisting(s, nodeId, updates, skipHistory)

updateNode(s, nodeId, updates, skipHistory) ==
  IF nodeId \notin DOMAIN s.nodes THEN s
  ELSE updateExisting(s, nodeId, updates, skipHistory)

\* the value read from a property of an object
Get(obj, f) == IF f \in DOMAIN obj THEN obj[f] ELSE Undefined

updateConnectionStyle(s, nodeId, style) ==
  IF nodeId \notin DOMAIN s.nodes THEN s
  ELSE
    LET currentStyle == s.nodes[nodeId].style
        color == Get(style, "connectionColor")
        withColor ==
          IF color # Undefined
          THEN IF color = Undefined \/ color = Null
               THEN Remove(currentStyle, {"connectionColor"})
               ELSE Put(currentStyle, "connectionColor", color)
          ELSE currentStyle
        newStyle ==
          IF "connectionDashed" \in DOMAIN style
          THEN IF style.connectionDashed = FALSE
               THEN Remove(withColor, {"connectionDashed"})
               ELSE Put(withColor, "connectionDashed", style.connectionDashed)
          ELSE withColor
    IN markMapDirty(updateNode(s, nodeId, [style |-> newStyle], FALSE))

\* the loop of setNodeOffset over descendantIds[i..]; acc carries newNodes,
\* oldOffsets and newOffsets
RECURSIVE cascadeOffsets(_, _, _, _, _)
cascadeOffsets(s, descendantIds, i, delta, acc) ==
  IF i > Len(descendantIds) THEN acc
  ELSE
    LET descId == descendantIds[i]
    IN IF descId \notin DOMAIN s.nodes
       THEN cascadeOffsets(s, descendantIds, i + 1, delta, acc)
       ELSE
         LET descNode == s.nodes[descId]
             cur == IF descNode.manualOffset = NoOffset THEN <<0, 0>>
                    ELSE descNode.manualOffset
             descNewOffset == <<cur[1] + delta[1], cur[2] + delta[2]>>
         IN cascadeOffsets(s, descendantIds, i + 1, delta,
              [newNodes |-> Put(acc.newNodes, descId,
                                [descNode EXCEPT
                                   !.manualOffset = descNewOffset]),
               oldOffsets |-> Put(acc.oldOffsets, descId,
                                  descNode.manualOffset),
               newOffsets |-> Put(acc.newOffsets, descId, descNewOffset)])

setNodeOffset(s, nodeId, newPosition, skipHistory) ==
  IF nodeId \notin DOMAIN s.nodes THEN s
  ELSE
    LET computedPos == LayoutAt(computedLayout(s), nodeId)
        currentFinalPos == nodePositions(s)[nodeId]
        delta == <<newPosition[1] - currentFinalPos[1],
                   newPosition[2] - currentFinalPos[2]>>
        descendantIds == getDescendantIds(nodeId, s.nodes)
        currentNode == s.nodes[nodeId]
        newOffset == calculateOffset(
                       IF computedPos = <<>> THEN <<0, 0>> ELSE computedPos,
                       newPosition)
        acc == cascadeOffsets(s, descendantIds, 1, delta,
                 [newNodes |-> Put(s.nodes, nodeId,
                                   [currentNode EXCEPT
                                      !.manualOffset = newOffset]),
                  oldOffsets |-> Put(EmptyMap, nodeId,
                                     currentNode.manualOffset),
                  newOffsets |-> Put(EmptyMap, nodeId, newOffset)])
        s1 == [s EXCEPT
                 !.nodes = acc.newNodes,
                 !.past = IF skipHistory THEN @
                          ELSE Append(@,
                            [type |-> "SET_OFFSET", nodeId |-> nodeId,
                             from |-> acc.oldOffsets[nodeId],
                             to |-> acc.newOffsets[nodeId],
                             hasDescendantOffsets |-> Len(descendantIds) > 0,
                             old |-> acc.oldOffsets,
                             new |-> acc.newOffsets]),
                 !.future = newFuture(@, skipHistory)]
        s2 == markNodeDirty(s1, nodeId)
        s3 == IF Len(descendantIds) > 0 THEN markNodesDirty(s2, descendantIds)
              ELSE s2
    IN markMapDirty(s3)

\* a slip: the offsets of the descendants are removed as well
clearNodeOffsetCascading(s, nodeId) ==
  IF nodeId \notin DOMAIN s.nodes THEN s
  ELSE LET cleared == SeqToSet(getDescendantIds(nodeId, s.nodes)) \cup {nodeId}
       IN [s EXCEPT !.nodes =
             [id \in DOMAIN @ |->
                IF id \in cleared THEN [@[id] EXCEPT !.manualOffset = NoOffset]
                ELSE @[id]]]

clearNodeOffset(s, nodeId) ==
  IF nodeId \notin DOMAIN s.nodes THEN s
  ELSE [s EXCEPT !.nodes[nodeId].manualOffset = NoOffset]

setOffsetDirect(s, nodeId, offset) ==
  IF nodeId \notin DOMAIN s.nodes THEN s
  ELSE [s EXCEPT !.nodes[nodeId].manualOffset = offset]

setOffsetsMultiple(s, offsets) ==
  [s EXCEPT !.nodes =
     [id \in DOMAIN s.nodes |->
        IF id \in DOMAIN offsets
        THEN [s.nodes[id] EXCEPT !.manualOffset = offsets[id]]
        ELSE s.nodes[id]]]

\* a slip: a deleted node comes back without its children references
revertActionChildless(s, action) ==
  CASE action.type = "ADD_NODE" -> deleteNode(s, action.node.id, TRUE)
    [] action.type = "DELETE_NODE" ->
         addNode(s, [action.node EXCEPT !.childrenIds = <<>>], TRUE)
    [] action.type = "SET_OFFSET" ->
         IF action.hasDescendantOffsets
         THEN setOffsetsMultiple(s, action.old)
         ELSE setOffsetDirect(s, action.nodeId, action.from)
    [] action.type = "UPDATE_NODE" ->
         updateNode(s, action.nodeId, action.before, TRUE)

\* a slip: only the dragged node gets its offset back
revertActionOfOneNode(s, action) ==
  CASE action.type = "ADD_NODE" -> deleteNode(s, action.node.id, TRUE)
    [] action.type = "DELETE_NODE" -> addNode(s, action.node, TRUE)
    [] action.type = "SET_OFFSET" ->
         setOffsetDirect(s, action.nodeId, action.from)
    [] action.type = "UPDATE_NODE" ->
         updateNode(s, action.nodeId, action.before, TRUE)

revertAction(s, action) ==
  CASE action.type = "ADD_NODE" -> deleteNode(s, action.node.id, TRUE)
    [] action.type = "DELETE_NODE" -> addNode(s, action.node, TRUE)
    [] action.type = "SET_OFFSET" ->
         IF action.hasDescendantOffsets
         THEN setOffsetsMultiple(s, action.old)
         ELSE setOffsetDirect(s, action.nodeId, action.from)
    [] action.type = "UPDATE_NODE" ->
         updateNode(s, action.nodeId, action.before, TRUE)

applyAction(s, action) ==
  CASE action.type = "ADD_NODE" -> addNode(s, action.node, TRUE)
    [] action.type = "DELETE_NODE" -> deleteNode(s, action.node.id, TRUE)
    [] action.type = "SET_OFFSET" ->
         IF action.hasDescendantOffsets
         THEN setOffsetsMultiple(s, action.new)
         ELSE setOffsetDirect(s, action.nodeId, action.to)
    [] action.type = "UPDATE_NODE" ->
         updateNode(s, action.nodeId, action.after, TRUE)

\* a slip: the undone command goes behind the ones undone before it
undoToTheBack(s) ==
  IF Len(s.past) = 0 THEN s
  ELSE
    LET lastAction == s.past[Len(s.past)]
        s1 == revertAction(s, lastAction)
    IN [s1 EXCEPT !.past = SubSeq(s.past, 1, Len(s.past) - 1),
                  !.future = Append(s.future, lastAction)]

undo(s) ==
  IF Len(s.past) = 0 THEN s
  ELSE
    LET lastAction == s.past[Len(s.past)]
        s1 == revertAction(s, lastAction)
    IN [s1 EXCEPT !.past = SubSeq(s.past, 1, Len(s.past) - 1),
                  !.future = <<lastAction>> \o s.future]

redo(s) ==
  IF Len(s.future) = 0 THEN s
  ELSE
    LET nextAction == s.future[1]
        s1 == applyAction(s, nextAction)
    IN [s1 EXCEPT !.past = Append(s.past, nextAction),
                  !.future = Tail(s.future)]

\* ---------------------------------------------------------- the actions
\* the documents the persistence layer can hand to loadMap
RootNode == MkNode(RootId, Null, "New Node", <<>>, NoOffset)

LoadableDocs == { Put(EmptyMap, RootId, RootNode) }

Act(name, id) == [name |-> name, id |-> id]

\* the store takes the value s2; the call is remembered
CommitStore(s2, act) ==
  /\ currentMap' = s2.currentMap
  /\ nodes' = s2.nodes
  /\ selectedNodeId' = s2.selectedNodeId
  /\ editingNodeId' = s2.editingNodeId
  /\ past' = s2.past
  /\ future' = s2.future
  /\ dirtyNodeIds' = s2.dirtyNodeIds
  /\ deletedNodeIds' = s2.deletedNodeIds
  /\ mapDirty' = s2.mapDirty
  /\ view' = s2.view
  /\ lastAct' = act
  /\ \A id \in DOMAIN s2.nodes : Len(s2.nodes[id].childrenIds) <= MaxKids

\* a call on the store that is neither a zoom nor a step of the auto-save
Commit(s2, act) ==
  /\ CommitStore(s2, act)
  /\ UNCHANGED <<zoomCalls, autoSave, calc>>

\* the handles setTimeout gives out
TimerHandles == <<"t1", "t2", "t3", "t4">>

\* AutoSaveService before enable(): no timer, no save in flight. timers are
\* the timeouts the event loop still holds, inFlight the calls of performSave
\* between their first await and their finally, port the node documents of
\* the persistence port
IDLE_SAVE ==
  [isEnabled |-> FALSE, saveTimeout |-> Null, isSaving |-> FALSE,
   pc |-> "idle", dirtyNodes |-> EmptyMap, deletedNodeIds |-> {},
   mapNeedsUpdate |-> FALSE, timers |-> {}, inFlight |-> 0,
   port |-> EmptyMap]

NoCalc == [last |-> Null]

\* ------------------------------------------------------ AutoSaveService
\* a and s are the fields of the service and the value of the store; every
\* method gives both back
Both(a, s) == [a |-> a, s |-> s]

\* store.getDirtyNodes(): the dirty ids that still resolve, with their node
getDirtyNodes(s) ==
  [id \in s.dirtyNodeIds \cap DOMAIN s.nodes |-> s.nodes[id]]

enable(a, s) == Both([a EXCEPT !.isEnabled = TRUE], s)

\* clearTimeout(handle): a handle that has fired or was cleared is ignored
clearTimeout(a, handle) == [a EXCEPT !.timers = @ \ {handle}]

\* this.saveTimeout = setTimeout(...): a handle no timeout has and the field
\* does not hold
setTimeout(a) ==
  LET free(i) == TimerHandles[i] \notin a.timers \cup {a.saveTimeout}
      handle == TimerHandles[CHOOSE i \in DOMAIN TimerHandles :
                               free(i) /\ \A j \in 1..(i - 1) : ~free(j)]
  IN [a EXCEPT !.timers = @ \cup {handle}, !.saveTimeout = handle]

\* if (this.saveTimeout) { clearTimeout(this.saveTimeout); this.saveTimeout = null }
cancelTimeout(a) ==
  IF a.saveTimeout = Null THEN a
  ELSE [clearTimeout(a, a.saveTimeout) EXCEPT !.saveTimeout = Null]

disable(a, s) == Both(cancelTimeout([a EXCEPT !.isEnabled = FALSE]), s)

\* a slip: the earlier timeout is left to fire
triggerSaveStacking(a, s) ==
  IF ~a.isEnabled THEN Both(a, s) ELSE Both(setTimeout(a), s)

triggerSave(a, s) ==
  IF ~a.isEnabled THEN Both(a, s)
  ELSE IF a.saveTimeout # Null
       THEN Both(setTimeout(clearTimeout(a, a.saveTimeout)), s)
       ELSE Both(setTimeout(a), s)

\* performSave when the flush gives up: nothing of the store is touched
saveEnded(a) ==
  [a EXCEPT !.isSaving = FALSE, !.pc = "idle", !.dirtyNodes = EmptyMap,
            !.deletedNodeIds = {}, !.mapNeedsUpdate = FALSE,
            !.inFlight = @ - 1]

\* a slip: the dirty state is cleared as soon as it has been read
performSaveClearingFirst(a, s) ==
  IF a.isSaving \/ ~hasPendingChanges(s) \/ s.currentMap = Null THEN Both(a, s)
  ELSE
    LET dirtyNodes == getDirtyNodes(s)
    IN Both([a EXCEPT !.isSaving = TRUE,
                      !.inFlight = @ + 1,
                      !.dirtyNodes = dirtyNodes,
                      !.deletedNodeIds = s.deletedNodeIds,
                      !.mapNeedsUpdate = s.mapDirty,
                      !.pc = IF DOMAIN dirtyNodes # {} THEN "saveNodes"
                             ELSE IF s.deletedNodeIds # {} THEN "deleteNodes"
                             ELSE "updateMap"],
            clearDirtyState(s))

\* performSave up to its first await
performSave(a, s) ==
  IF a.isSaving THEN Both(a, s)
  ELSE IF ~hasPendingChanges(s) THEN Both(a, s)
  ELSE IF s.currentMap = Null THEN Both(a, s)
  ELSE
    LET dirtyNodes == getDirtyNodes(s)
    IN Both([a EXCEPT !.isSaving = TRUE,
                      !.inFlight = @ + 1,
                      !.dirtyNodes = dirtyNodes,
                      !.deletedNodeIds = s.deletedNodeIds,
                      !.mapNeedsUpdate = s.mapDirty,
                      !.pc = IF DOMAIN dirtyNodes # {} THEN "saveNodes"
                             ELSE IF s.deletedNodeIds # {} THEN "deleteNodes"
                             ELSE "updateMap"],
            s)

\* MindMapService.saveNodes: one document per node, under its id
saveNodes(port, dirtyNodes) ==
  [id \in DOMAIN port \cup DOMAIN dirtyNodes |->
     IF id \in DOMAIN dirtyNodes THEN dirtyNodes[id] ELSE port[id]]

\* MindMapService.deleteNodesByIds
deleteNodesByIds(port, nodeIds) ==
  [id \in DOMAIN port \ nodeIds |-> port[id]]

\* a slip: the catch block clears the dirty state too
writeFailedClearing(a, s) == Both(saveEnded(a), clearDirtyState(s))

\* performSave from a rejected await: catch, then finally
writeFailed(a, s) == Both(saveEnded(a), s)

\* performSave from a resolved await to the next one, or to its end
writeSucceeded(a, s) ==
  CASE a.pc = "saveNodes" ->
         Both([a EXCEPT !.pc = IF a.deletedNodeIds # {} THEN "deleteNodes"
                                ELSE "updateMap",
                        !.port = saveNodes(a.port, a.dirtyNodes)], s)
    [] a.pc = "deleteNodes" ->
         Both([a EXCEPT !.pc = "updateMap",
                        !.port = deleteNodesByIds(a.port, a.deletedNodeIds)], s)
    [] a.pc = "updateMap" -> Both(saveEnded(a), clearDirtyState(s))
    [] OTHER -> Both(a, s)

\* the callback of setTimeout
timerFired(a, s, handle) == performSave(clearTimeout(a, handle), s)

saveNow(a, s) == performSave(cancelTimeout(a), s)


Init ==
  /\ currentMap = INITIAL_STATE.currentMap
  /\ nodes = INITIAL_STATE.nodes
  /\ selectedNodeId = INITIAL_STATE.selectedNodeId
  /\ editingNodeId = INITIAL_STATE.editingNodeId
  /\ past = INITIAL_STATE.past
  /\ future = INITIAL_STATE.future
  /\ dirtyNodeIds = {}
  /\ deletedNodeIds = {}
  /\ mapDirty = FALSE
  /\ view = INITIAL_STATE.view
  /\ idCounter = 0
  /\ lastAct = Act("init", Null)
  /\ zoomCalls = 0
  /\ autoSave = IDLE_SAVE
  /\ calc = NoCalc

LoadMapOf(docs) ==
  \E doc \in docs :
    /\ Commit(loadMap(Store, RootId, doc), Act("loadMap", Null))
    /\ idCounter' = 0

LoadMap == LoadMapOf(LoadableDocs)

\* documents whose root comes with a node colour
StyledDocs ==
  LoadableDocs \cup
    { Put(EmptyMap, RootId, [RootNode EXCEPT !.style = [color |-> "blue"]]) }

LoadStyledMap == LoadMapOf(StyledDocs)

\* the arguments ConnectionLayerComponent passes: setConnectionColor,
\* resetConnectionColor and setConnectionDashed
ConnectionStyles ==
  { [connectionColor |-> "red"], [connectionColor |-> Undefined],
    [connectionDashed |-> TRUE], [connectionDashed |-> FALSE] }

UpdateConnectionStyle ==
  \E id \in DOMAIN nodes : \E style \in ConnectionStyles :
    /\ Len(past) < MaxPast
    /\ Commit(updateConnectionStyle(Store, id, style),
              Act("updateConnectionStyle", id))
    /\ UNCHANGED idCounter

ClearMap ==
  /\ currentMap # Null
  /\ Commit(clearMap(Store), Act("clearMap", Null))
  /\ idCounter' = 0

SelectNode ==
  \E id \in DOMAIN nodes \cup {Null} :
    /\ Commit(selectNode(Store, id), Act("selectNode", id))
    /\ UNCHANGED idCounter

StartEditing ==
  \E id \in DOMAIN nodes :
    /\ Commit(startEditing(Store, id), Act("startEditing", id))
    /\ UNCHANGED idCounter

StopEditing ==
  /\ editingNodeId # Null
  /\ Commit(stopEditing(Store), Act("stopEditing", Null))
  /\ UNCHANGED idCounter

\* CanvasComponent.addChildNode / addSiblingNode: a fresh childless node under
\* an existing parent, inheriting the parent's manual offset
NewNode(id, parent) ==
  MkNode(id, parent.id, "New Node", <<>>, parent.manualOffset)

AddNode(maxNew, maxPast) ==
  \E parentId \in DOMAIN nodes :
    /\ currentMap # Null
    /\ idCounter < maxNew
    /\ Len(past) < maxPast
    /\ LET id == generateId(idCounter + 1)
       IN Commit(addNode(Store, NewNode(id, nodes[parentId]), FALSE),
                 Act("addNode", id))
    /\ idCounter' = idCounter + 1

\* the ids a caller can hold: those of the mapping, and those handed out
\* earlier whose node is gone by now
KnownIds == DOMAIN nodes \cup { generateId(i) : i \in 1..idCounter }

DeleteNodeOf(ids, maxPast) ==
  \E id \in ids :
    /\ Len(past) < maxPast
    /\ Commit(deleteNode(Store, id, FALSE), Act("deleteNode", id))
    /\ UNCHANGED idCounter

DeleteNode(maxPast) == DeleteNodeOf(DOMAIN nodes, maxPast)

UpdateNodeOf(ids, maxPast) ==
  \E id \in ids, text \in Texts :
    /\ Len(past) < maxPast
    /\ Commit(updateNode(Store, id, [text |-> text], FALSE),
              Act("updateNode", id))
    /\ UNCHANGED idCounter

UpdateNode(maxPast) == UpdateNodeOf(DOMAIN nodes, maxPast)

\* a drag: the node is dropped at its current position moved by d
SetNodeOffsetOf(ids, maxPast) ==
  \E id \in ids, d \in Drags :
    /\ Len(past) < maxPast
    /\ LET cur == IF id \in DOMAIN nodes THEN nodePositions(Store)[id]
                  ELSE <<0, 0>>
       IN Commit(setNodeOffset(Store, id, <<cur[1] + d[1], cur[2] + d[2]>>,
                               FALSE),
                 Act("setNodeOffset", id))
    /\ UNCHANGED idCounter

SetNodeOffset(maxPast) == SetNodeOffsetOf(DOMAIN nodes, maxPast)

ClearNodeOffsetOf(ids) ==
  \E id \in ids :
    /\ id \in DOMAIN nodes => nodes[id].manualOffset # NoOffset
    /\ Commit(clearNodeOffset(Store, id), Act("clearNodeOffset", id))
    /\ UNCHANGED idCounter

ClearNodeOffset == ClearNodeOffsetOf(DOMAIN nodes)

\* CanvasComponent.onMouseMove while panning: the view moves with the mouse
UpdateView ==
  \E d \in PanMoves :
    /\ view.panX < MaxPans * d[1]
    /\ Commit(updateView(Store, [panX |-> view.panX + d[1],
                                 panY |-> view.panY + d[2]]),
              Act("updateView", Null))
    /\ UNCHANGED idCounter

ResetView ==
  /\ Commit(resetView(Store), Act("resetView", Null))
  /\ UNCHANGED idCounter

\* updateView called with a scale
UpdateViewScale ==
  \E x \in ScaleInputs :
    /\ Commit(updateView(Store, [scale |-> x]), Act("updateView", Null))
    /\ UNCHANGED idCounter

ZoomIn ==
  /\ zoomCalls < MaxZooms
  /\ CommitStore(zoomIn(Store), Act("zoomIn", Null))
  /\ zoomCalls' = zoomCalls + 1
  /\ UNCHANGED <<idCounter, autoSave, calc>>

ZoomOut ==
  /\ zoomCalls < MaxZooms
  /\ CommitStore(zoomOut(Store), Act("zoomOut", Null))
  /\ zoomCalls' = zoomCalls + 1
  /\ UNCHANGED <<idCounter, autoSave, calc>>

\* AutoSaveService.performSave, once every write has succeeded
ClearDirtyState ==
  /\ currentMap # Null
  /\ hasPendingChanges(Store)
  /\ Commit(clearDirtyState(Store), Act("clearDirtyState", Null))
  /\ UNCHANGED idCounter

Undo ==
  /\ Commit(undo(Store), Act("undo", Null))
  /\ UNCHANGED idCounter

Redo ==
  /\ Commit(redo(Store), Act("redo", Null))
  /\ UNCHANGED idCounter

\* every operation of the store
Next ==
  \/ LoadMap
  \/ ClearMap
  \/ SelectNode
  \/ StartEditing
  \/ StopEditing
  \/ AddNode(MaxNew, MaxPast)
  \/ DeleteNode(MaxPast)
  \/ UpdateNode(MaxPast)
  \/ SetNodeOffset(MaxPast)
  \/ ClearNodeOffset
  \/ Undo
  \/ Redo

Spec == Init /\ [][Next]_vars

\* the operations that change the shape of the tree, with longer histories
NextTree ==
  \/ LoadMap
  \/ SelectNode
  \/ AddNode(TreeNew, TreePast)
  \/ DeleteNode(TreePast)
  \/ Undo
  \/ Redo

SpecTree == Init /\ [][NextTree]_vars

\* the mutations of the nodes, with saves completing in between
NextSave ==
  \/ LoadMap
  \/ AddNode(MaxNew, MaxPast)
  \/ DeleteNode(MaxPast)
  \/ UpdateNode(MaxPast)
  \/ SetNodeOffset(MaxPast)
  \/ ClearNodeOffset
  \/ ClearDirtyState
  \/ Undo
  \/ Redo

SpecSave == Init /\ [][NextSave]_vars

\* the tree operations together with drags
NextDrag ==
  \/ LoadMap
  \/ AddNode(TreeNew, TreePast)
  \/ DeleteNode(TreePast)
  \/ SetNodeOffset(TreePast)
  \/ Undo
  \/ Redo

SpecDrag == Init /\ [][NextDrag]_vars

\* the mutations, called with stale ids as well
NextStale ==
  \/ LoadMap
  \/ AddNode(MaxNew, MaxPast)
  \/ DeleteNodeOf(KnownIds, MaxPast)
  \/ UpdateNodeOf(KnownIds, MaxPast)
  \/ SetNodeOffsetOf(KnownIds, MaxPast)
  \/ ClearNodeOffsetOf(KnownIds)
  \/ Undo
  \/ Redo

SpecStale == Init /\ [][NextStale]_vars

\* loading and clearing, from states where the view has been moved as well
NextView ==
  \/ LoadMap
  \/ ClearMap
  \/ StartEditing
  \/ AddNode(MaxNew, MaxPast)
  \/ DeleteNode(MaxPast)
  \/ UpdateView
  \/ ResetView
  \/ Undo

SpecView == Init /\ [][NextView]_vars

\* the operations on the view
NextZoom ==
  \/ UpdateView
  \/ UpdateViewScale
  \/ ZoomIn
  \/ ZoomOut
  \/ ResetView

SpecZoom == Init /\ [][NextZoom]_vars

\* ------------------------------------------- the steps of the auto-save
CommitSave(both, act) ==
  /\ CommitStore(both.s, act)
  /\ autoSave' = both.a
  /\ UNCHANGED <<idCounter, zoomCalls, calc>>

Enable ==
  /\ ~autoSave.isEnabled
  /\ CommitSave(enable(autoSave, Store), Act("enable", Null))

Disable ==
  /\ autoSave.isEnabled
  /\ CommitSave(disable(autoSave, Store), Act("disable", Null))

TriggerSave == CommitSave(triggerSave(autoSave, Store), Act("triggerSave", Null))

TimerFires ==
  \E handle \in autoSave.timers :
    CommitSave(timerFired(autoSave, Store, handle), Act("timerFires", Null))

SaveNow == CommitSave(saveNow(autoSave, Store), Act("saveNow", Null))

\* the write the flush is waiting for is confirmed by the backend
WriteSucceeds ==
  /\ autoSave.pc # "idle"
  /\ CommitSave(writeSucceeded(autoSave, Store), Act("writeSucceeds", Null))

\* the write the flush is waiting for is rejected
WriteFails ==
  /\ autoSave.pc # "idle"
  /\ CommitSave(writeFailed(autoSave, Store), Act("writeFails", Null))

NextAutoSave ==
  \/ LoadMap
  \/ AddNode(MaxNew, MaxPast)
  \/ DeleteNode(MaxPast)
  \/ Enable
  \/ Disable
  \/ TriggerSave
  \/ TimerFires
  \/ SaveNow
  \/ WriteSucceeds
  \/ WriteFails

SpecAutoSave == Init /\ [][NextAutoSave]_vars

\* ------------------------- auto-save with triggerSave after every change
\* a store call followed by autoSave.triggerSave()
CommitThenTrigger(s2, act) ==
  /\ CommitStore(s2, act)
  /\ autoSave' = triggerSave(autoSave, s2).a
  /\ UNCHANGED <<zoomCalls, calc>>

\* EditorComponent.loadMap: the nodes are read from the port and handed to
\* the store
OpenMap ==
  \E doc \in LoadableDocs :
    /\ currentMap = Null
    /\ CommitStore(loadMap(Store, RootId, doc), Act("loadMap", Null))
    /\ autoSave' = [autoSave EXCEPT !.port = doc]
    /\ idCounter' = 0
    /\ UNCHANGED <<zoomCalls, calc>>

AddNodeThenTrigger ==
  \E parentId \in DOMAIN nodes :
    /\ currentMap # Null /\ autoSave.isEnabled
    /\ idCounter < MaxNew
    /\ Len(past) < MaxPast
    /\ LET id == generateId(idCounter + 1)
       IN CommitThenTrigger(addNode(Store, NewNode(id, nodes[parentId]), FALSE),
                            Act("addNode", id))
    /\ idCounter' = idCounter + 1

UpdateNodeThenTrigger ==
  \E id \in DOMAIN nodes, text \in Texts :
    /\ currentMap # Null /\ autoSave.isEnabled
    /\ Len(past) < MaxPast
    /\ CommitThenTrigger(updateNode(Store, id, [text |-> text], FALSE),
                         Act("updateNode", id))
    /\ UNCHANGED idCounter

DeleteNodeThenTrigger ==
  \E id \in DOMAIN nodes :
    /\ currentMap # Null /\ autoSave.isEnabled
    /\ Len(past) < MaxPast
    /\ CommitThenTrigger(deleteNode(Store, id, FALSE), Act("deleteNode", id))
    /\ UNCHANGED idCounter

NextTriggered ==
  \/ Enable
  \/ OpenMap
  \/ AddNodeThenTrigger
  \/ UpdateNodeThenTrigger
  \/ DeleteNodeThenTrigger
  \/ TimerFires
  \/ SaveNow
  \/ WriteSucceeds

\* a timeout that is pending fires, and a write that is awaited resolves
SpecTriggered ==
  /\ Init
  /\ [][NextTriggered]_vars
  /\ WF_vars(TimerFires)
  /\ WF_vars(WriteSucceeds)

\* ------------------------------------- maps that were saved as larger trees
Leaf(id, parentId) == MkNode(id, parentId, "New Node", <<>>, NoOffset)

Inner(id, parentId, childrenIds) ==
  MkNode(id, parentId, "New Node", childrenIds, NoOffset)

\* trees of an earlier session, as getNodesOnce returns them
StoredDocs ==
  { \* two subtrees of one node each
    [id \in {"r", "a", "b", "c", "d"} |->
       CASE id = "r" -> Inner("r", Null, <<"a", "b">>)
         [] id = "a" -> Inner("a", "r", <<"c">>)
         [] id = "b" -> Inner("b", "r", <<"d">>)
         [] id = "c" -> Leaf("c", "a")
         [] id = "d" -> Leaf("d", "b")],
    \* a subtree of two leaves above a leaf
    [id \in {"r", "a", "b", "c", "d"} |->
       CASE id = "r" -> Inner("r", Null, <<"a", "b">>)
         [] id = "a" -> Inner("a", "r", <<"c", "d">>)
         [] id = "b" -> Leaf("b", "r")
         [] id = "c" -> Leaf("c", "a")
         [] id = "d" -> Leaf("d", "a")],
    \* a chain beside a leaf
    [id \in {"r", "a", "b", "c", "d"} |->
       CASE id = "r" -> Inner("r", Null, <<"b", "a">>)
         [] id = "a" -> Inner("a", "r", <<"c">>)
         [] id = "b" -> Leaf("b", "r")
         [] id = "c" -> Inner("c", "a", <<"d">>)
         [] id = "d" -> Leaf("d", "c")] }

LoadStoredMap == LoadMapOf(StoredDocs)

NextLayout ==
  \/ LoadStoredMap
  \/ AddNode(MaxNew, MaxPast)
  \/ DeleteNode(MaxPast)

SpecLayout == Init /\ [][NextLayout]_vars

\* ---------------------------------------------- the geometry functions
Positions == (-MaxCoord..MaxCoord) \X (-MaxCoord..MaxCoord)

\* a computed position (or none), a manual offset (or none) and the place
\* a drag ends at; or the positions of a parent and of a child
GeometryInputs ==
  [last : {Null}, computedPos : Positions \cup {<<>>},
   manualOffset : Positions \cup {NoOffset}, newPos : Positions,
   dragged : {FALSE}, result : {Null}]
  \cup
  [last : {Null}, parentPos : {<<0, 0>>, <<1, -1>>}, childPos : Positions,
   result : {Null}]

InitGeometry ==
  /\ currentMap = INITIAL_STATE.currentMap
  /\ nodes = INITIAL_STATE.nodes
  /\ selectedNodeId = INITIAL_STATE.selectedNodeId
  /\ editingNodeId = INITIAL_STATE.editingNodeId
  /\ past = INITIAL_STATE.past
  /\ future = INITIAL_STATE.future
  /\ dirtyNodeIds = {}
  /\ deletedNodeIds = {}
  /\ mapDirty = FALSE
  /\ view = INITIAL_STATE.view
  /\ idCounter = 0
  /\ lastAct = Act("init", Null)
  /\ zoomCalls = 0
  /\ autoSave = IDLE_SAVE
  /\ calc \in GeometryInputs

\* the offset a drag to newPos stores for the node
CalculateOffset ==
  /\ calc.last = Null
  /\ "newPos" \in DOMAIN calc
  /\ calc.computedPos # <<>>
  /\ calc' = [calc EXCEPT
                !.manualOffset = calculateOffset(calc.computedPos, calc.newPos),
                !.dragged = TRUE,
                !.last = "calculateOffset"]
  /\ UNCHANGED <<storeVars, idCounter, lastAct, zoomCalls, autoSave>>

GetFinalPosition ==
  /\ calc.last # "getFinalPosition"
  /\ "computedPos" \in DOMAIN calc
  /\ calc' = [calc EXCEPT
                !.result = getFinalPosition(calc.computedPos, calc.manualOffset),
                !.last = "getFinalPosition"]
  /\ UNCHANGED <<storeVars, idCounter, lastAct, zoomCalls, autoSave>>

GetAnchorEdges ==
  /\ calc.last = Null
  /\ "parentPos" \in DOMAIN calc
  /\ calc' = [calc EXCEPT
                !.result = getAnchorEdges(calc.parentPos, calc.childPos),
                !.last = "getAnchorEdges"]
  /\ UNCHANGED <<storeVars, idCounter, lastAct, zoomCalls, autoSave>>

NextGeometry ==
  \/ CalculateOffset
  \/ GetFinalPosition
  \/ GetAnchorEdges

SpecGeometry == InitGeometry /\ [][NextGeometry]_vars

\* the operations that change the style of a node
NextStyle ==
  \/ LoadStyledMap
  \/ AddNode(MaxNew, MaxPast)
  \/ UpdateNode(MaxPast)
  \/ UpdateConnectionStyle
  \/ ClearDirtyState
  \/ Undo
  \/ Redo

SpecStyle == Init /\ [][NextStyle]_vars

\* ---------------------------------------------------------------------
\* Properties
\* ---------------------------------------------------------------------

Loaded == currentMap # Null

\* nodes of the mapping that have n among their parentId ancestors
RECURSIVE hasAncestor(_, _, _, _)
hasAncestor(ns, m, n, fuel) ==
  IF fuel = 0 \/ m \notin DOMAIN ns THEN FALSE
  ELSE IF ns[m].parentId = Null THEN FALSE
  ELSE IF ns[m].parentId = n THEN TRUE
  ELSE hasAncestor(ns, ns[m].parentId, n, fuel - 1)

descendantsOf(ns, n) ==
  { m \in DOMAIN ns : hasAncestor(ns, m, n, Cardinality(DOMAIN ns)) }

\* the parentId chain of m ends at the root, through present nodes only
RECURSIVE reachesRoot(_, _, _, _)
reachesRoot(ns, m, rootId, fuel) ==
  IF m \notin DOMAIN ns THEN FALSE
  ELSE IF m = rootId THEN ns[m].parentId = Null
  ELSE IF fuel = 0 \/ ns[m].parentId = Null THEN FALSE
  ELSE reachesRoot(ns, ns[m].parentId, rootId, fuel - 1)

\* the first three commands of the history are additions under the root,
\* nothing has been undone and nothing else was ever deleted
addedUnderRoot(i) ==
  /\ past[i].type = "ADD_NODE"
  /\ past[i].node.parentId = RootId

ThreeAdds ==
  /\ Loaded
  /\ Len(past) = 3
  /\ \A i \in 1..3 : addedUnderRoot(i)
  /\ future = <<>>
  /\ deletedNodeIds = {}

\* ... and the fourth is the deletion of the second of them
MiddleDeleted ==
  /\ Loaded
  /\ Len(past) = 4
  /\ \A i \in 1..3 : addedUnderRoot(i)
  /\ past[4].type = "DELETE_NODE"
  /\ past[4].node.id = past[2].node.id
  /\ future = <<>>
  /\ deletedNodeIds = {past[2].node.id}

\* C1: in every state of a loaded document, for all nodes N and P of the
\* mapping, N.parentId = P.id exactly when N.id is in P.childrenIds, and
\* every id listed in a childrenIds resolves to a node of the mapping.
C1_ParentChildConsistent ==
  Loaded =>
    /\ \A n \in DOMAIN nodes : \A p \in DOMAIN nodes :
         (nodes[n].parentId = p) <=> (n \in SeqToSet(nodes[p].childrenIds))
    /\ \A p \in DOMAIN nodes :
         SeqToSet(nodes[p].childrenIds) \subseteq DOMAIN nodes

\* C2: for every command variant, the operation followed by one undo()
\* gives back the node mapping the operation started from.
C2_UndoRestoresMapping ==
  Loaded =>
    /\ \A p \in DOMAIN nodes :
         undo(addNode(Store, NewNode(generateId(idCounter + 1), nodes[p]),
                      FALSE)).nodes = nodes
    /\ \A n \in DOMAIN nodes \ {currentMap} :
         undo(deleteNode(Store, n, FALSE)).nodes = nodes
    /\ \A n \in DOMAIN nodes : \A text \in Texts :
         undo(updateNode(Store, n, [text |-> text], FALSE)).nodes = nodes
    /\ \A n \in DOMAIN nodes : \A d \in Drags :
         LET pos == nodePositions(Store)[n]
         IN undo(setNodeOffset(Store, n, <<pos[1] + d[1], pos[2] + d[2]>>,
                               FALSE)).nodes = nodes

\* C3: from any state with a non-empty past, undo() followed at once by
\* redo() gives back the node mapping, the selection and both stacks.
C3_UndoRedoRestoresState ==
  Len(past) > 0 =>
    LET after == redo(undo(Store))
    IN /\ after.nodes = nodes
       /\ after.selectedNodeId = selectedNodeId
       /\ after.past = past
       /\ after.future = future

\* C4: with A, B, C added under the root in that order and B deleted, one
\* undo() gives the root the children [A, B, C] again and selects B.
C4_UndoRestoresSiblingPosition ==
  [][ (MiddleDeleted /\ lastAct'.name = "undo") =>
        /\ nodes'[RootId].childrenIds =
             <<past[1].node.id, past[2].node.id, past[3].node.id>>
        /\ selectedNodeId' = past[2].node.id ]_vars

\* C5: every addNode appends the new id last in its parent's childrenIds,
\* so three additions A, B, C under the root give [A, B, C]; deleting B
\* then gives [A, C], selects the root, and leaves a past of length 4
\* with an empty future.
C5_AppendThenDelete ==
  [][ /\ \A id \in NewIds :
           (lastAct' = Act("addNode", id) /\ id \in DOMAIN nodes') =>
             LET p == nodes'[id].parentId
             IN nodes'[p].childrenIds = Append(nodes[p].childrenIds, id)
      /\ ThreeAdds' =>
           nodes'[RootId].childrenIds =
             <<past'[1].node.id, past'[2].node.id, past'[3].node.id>>
      /\ (ThreeAdds /\ lastAct' = Act("deleteNode", past[2].node.id)) =>
           /\ nodes'[RootId].childrenIds =
                <<past[1].node.id, past[3].node.id>>
           /\ selectedNodeId' = RootId
           /\ Len(past') = 4
           /\ future' = <<>> ]_vars

C5_Witness ==
  /\ MiddleDeleted
  /\ lastAct = Act("deleteNode", past[2].node.id)
  /\ nodes[RootId].childrenIds = <<past[1].node.id, past[3].node.id>>

\* C6: no id is in the dirty set and in the deleted set at the same time.
C6_DirtyDeletedDisjoint ==
  dirtyNodeIds \cap deletedNodeIds = {}

\* C7: while a node is being edited it is also the selected node.
C7_EditingIsSelected ==
  editingNodeId # Null => selectedNodeId = editingNodeId

\* C8: once a document is loaded its root node stays in the mapping, and
\* deleteNode(root) changes nothing: mapping, selection, history and
\* dirty state are all as before.
C8_RootNeverRemoved ==
  Loaded =>
    /\ currentMap \in DOMAIN nodes
    /\ deleteNode(Store, currentMap, FALSE) = Store

C8_Witness ==
  /\ lastAct = Act("deleteNode", RootId)
  /\ nodes[RootId].childrenIds # <<>>
  /\ Len(past) > 0
  /\ dirtyNodeIds # {}

\* C9: deleteNode(N) of a non-root node N of the mapping removes N and
\* all of its descendants from the mapping, and no other node.
C9_DeleteRemovesSubtree ==
  [][ \A n \in DOMAIN nodes :
        (lastAct' = Act("deleteNode", n) /\ nodes[n].parentId # Null) =>
          /\ DOMAIN nodes' = DOMAIN nodes \ ({n} \cup descendantsOf(nodes, n))
          /\ Cardinality(DOMAIN nodes) - Cardinality(DOMAIN nodes') =
               Cardinality(descendantsOf(nodes, n)) + 1 ]_vars

C9_Witness ==
  /\ lastAct.name = "deleteNode"
  /\ Len(past) > 0
  /\ past[Len(past)].type = "DELETE_NODE"
  /\ past[Len(past)].node.id = lastAct.id
  /\ Len(past[Len(past)].node.childrenIds) = 1
  /\ DOMAIN nodes = {RootId}

\* C10: the mapping of a loaded document is one acyclic tree: exactly
\* one node has a null parentId, the root, and the parentId chain of
\* every other node reaches the root through nodes of the mapping.
C10_SingleTree ==
  Loaded =>
    /\ { n \in DOMAIN nodes : nodes[n].parentId = Null } = {currentMap}
    /\ \A n \in DOMAIN nodes :
         reachesRoot(nodes, n, currentMap, Cardinality(DOMAIN nodes))

NodeChanging ==
  {"addNode", "updateNode", "setNodeOffset", "clearNodeOffset", "undo", "redo"}

\* C11: after addNode, updateNode, setNodeOffset, clearNodeOffset, undo or
\* redo, every node of the mapping that is new or differs from what it was
\* is in the dirty set, so that hasPendingChanges is true.
C11_ChangedNodesAreDirty ==
  [][ lastAct'.name \in NodeChanging =>
        \A n \in DOMAIN nodes' :
          (n \notin DOMAIN nodes \/ nodes'[n] # nodes[n]) =>
            n \in dirtyNodeIds' ]_vars

IdCalls == {"deleteNode", "updateNode", "setNodeOffset", "clearNodeOffset"}

\* C14: undo() with an empty past, redo() with an empty future, and
\* deleteNode, updateNode, setNodeOffset and clearNodeOffset called with an
\* id that is not in the mapping leave the whole store as it was.
C14_ErrorsAreNoOps ==
  [][ /\ (lastAct'.name = "undo" /\ past = <<>>) => UNCHANGED storeVars
      /\ (lastAct'.name = "redo" /\ future = <<>>) => UNCHANGED storeVars
      /\ (lastAct'.name \in IdCalls /\ lastAct'.id \notin DOMAIN nodes) =>
           UNCHANGED storeVars ]_vars

C14_Witness ==
  /\ Loaded
  /\ lastAct.name = "updateNode"
  /\ lastAct.id \notin DOMAIN nodes
  /\ lastAct.id \in deletedNodeIds
  /\ Len(past) > 0

Recorded == {"addNode", "deleteNode", "updateNode", "setNodeOffset"}

\* the command type each mutation records
commandOf(name) ==
  CASE name = "addNode" -> "ADD_NODE"
    [] name = "deleteNode" -> "DELETE_NODE"
    [] name = "updateNode" -> "UPDATE_NODE"
    [] name = "setNodeOffset" -> "SET_OFFSET"

\* the call acts on a node of the mapping (for deleteNode, not the root)
Effective(act) ==
  \/ act.name = "addNode"
  \/ /\ act.name = "deleteNode"
     /\ act.id \in DOMAIN nodes
     /\ nodes[act.id].parentId # Null
  \/ /\ act.name \in {"updateNode", "setNodeOffset"}
     /\ act.id \in DOMAIN nodes

\* C12: every effective addNode, deleteNode, updateNode and setNodeOffset
\* appends exactly one command, of its own type, to the end of past and
\* leaves future empty, so that a redo() right after it changes nothing.
C12_MutationRecordsOneCommand ==
  [][ (lastAct'.name \in Recorded /\ Effective(lastAct')) =>
        /\ past' = Append(past, past'[Len(past')])
        /\ past'[Len(past')].type = commandOf(lastAct'.name)
        /\ future' = <<>>
        /\ redo(Store)' = Store' ]_vars

C12_Witness ==
  /\ lastAct.name = "updateNode"
  /\ lastAct.id \in DOMAIN nodes
  /\ Len(past) = 2
  /\ past[2].type = "UPDATE_NODE"
  /\ past[1].type = "SET_OFFSET"
  /\ deletedNodeIds # {}
  /\ future = <<>>

\* C13: undo() with a non-empty past moves the last command of past to the
\* front of future and records nothing; redo() with a non-empty future
\* moves the first command of future to the end of past; either way
\* past ++ future and the sum of the two lengths stay the same.
C13_UndoRedoMoveOneCommand ==
  [][ /\ (lastAct'.name = "undo" /\ past # <<>>) =>
           /\ past' = SubSeq(past, 1, Len(past) - 1)
           /\ future' = <<past[Len(past)]>> \o future
      /\ (lastAct'.name = "redo" /\ future # <<>>) =>
           /\ past' = Append(past, Head(future))
           /\ future' = Tail(future)
      /\ lastAct'.name \in {"undo", "redo"} =>
           /\ past' \o future' = past \o future
           /\ Len(past') + Len(future') = Len(past) + Len(future) ]_vars

C13_Witness ==
  /\ lastAct.name = "redo"
  /\ Len(past) = 1
  /\ Len(future) = 1
  /\ past[1].type # future[1].type

Minus(p, q) == <<p[1] - q[1], p[2] - q[2]>>

Plus(p, q) == <<p[1] + q[1], p[2] + q[2]>>

\* C15: setNodeOffset(N, desired) on a node of the mapping leaves N at
\* desired; every descendant of N keeps its position relative to N; the
\* nodes outside the subtree of N keep their offsets.
C15_DragTranslatesSubtree ==
  \A n \in DOMAIN nodes : \A d \in Drags :
    LET before == nodePositions(Store)
        desired == Plus(before[n], d)
        dragged == setNodeOffset(Store, n, desired, FALSE)
        after == nodePositions(dragged)
        subtree == descendantsOf(nodes, n)
    IN /\ after[n] = desired
       /\ \A m \in subtree :
            Minus(after[m], after[n]) = Minus(before[m], before[n])
       /\ \A m \in DOMAIN nodes \ (subtree \cup {n}) :
            dragged.nodes[m].manualOffset = nodes[m].manualOffset

noOffsetIn(ns, ids) == \A m \in ids : ns[m].manualOffset = NoOffset

\* C16: when a node with descendants sits at its auto position and
\* neither it nor any descendant has a manual offset, dragging it by v
\* gives every descendant (and the node) the offset v, and one undo()
\* leaves all of them without offset again.
C16_CascadeFromAutoPosition ==
  \A n \in DOMAIN computedLayout(Store) : \A v \in Drags :
    LET subtree == descendantsOf(nodes, n)
        dragged == setNodeOffset(Store, n, Plus(computedLayout(Store)[n], v),
                                 FALSE)
        undone == undo(dragged)
    IN (subtree # {} /\ noOffsetIn(nodes, subtree \cup {n})) =>
         /\ \A m \in subtree \cup {n} : dragged.nodes[m].manualOffset = v
         /\ noOffsetIn(undone.nodes, subtree \cup {n})

C16_Witness ==
  /\ lastAct.name = "setNodeOffset"
  /\ Len(past) > 0
  /\ past[Len(past)].type = "SET_OFFSET"
  /\ past[Len(past)].hasDescendantOffsets
  /\ Cardinality(DOMAIN past[Len(past)].old) >= 2
  /\ \A k \in DOMAIN past[Len(past)].old :
       /\ past[Len(past)].old[k] = NoOffset
       /\ past[Len(past)].new[k] \in Drags
       /\ k \in DOMAIN nodes
       /\ nodes[k].manualOffset \in Drags

\* the last command of a non-empty stack
Last(stack) == stack[Len(stack)]

\* C17: undoing a SET_OFFSET command gives the dragged node and every
\* cascaded descendant exactly the offset it had just before the drag
\* (absent stays absent), whatever happened in between; redoing gives
\* each exactly its recorded new offset. The command records, for the
\* dragged node and each descendant, the offsets before and after.
C17_OffsetReplayIsExact ==
  /\ \A n \in DOMAIN nodes : \A d \in Drags :
       LET dragged == setNodeOffset(Store, n,
                                    Plus(nodePositions(Store)[n], d), FALSE)
           command == Last(dragged.past)
       IN \A k \in descendantsOf(nodes, n) \cup {n} :
            /\ k \in DOMAIN command.old
            /\ command.old[k] = nodes[k].manualOffset
            /\ command.new[k] = dragged.nodes[k].manualOffset
  /\ (past # <<>> /\ Last(past).type = "SET_OFFSET") =>
       \A k \in DOMAIN Last(past).old :
         /\ k \in DOMAIN undo(Store).nodes
         /\ undo(Store).nodes[k].manualOffset = Last(past).old[k]
  /\ (future # <<>> /\ Head(future).type = "SET_OFFSET") =>
       \A k \in DOMAIN Head(future).new :
         /\ k \in DOMAIN redo(Store).nodes
         /\ redo(Store).nodes[k].manualOffset = Head(future).new[k]

\* C18: undoing a DELETE_NODE command puts back exactly the stored node,
\* children references included, and appends its id to the childrenIds of
\* its parent, but puts back none of its descendants: after deleteNode(N)
\* of a node with descendants and one undo(), N is in the mapping and its
\* descendants are not.
C18_UndoDeleteRestoresOneNode ==
  /\ \A n \in DOMAIN nodes :
       LET subtree == descendantsOf(nodes, n)
           after == undo(deleteNode(Store, n, FALSE))
       IN (nodes[n].parentId # Null /\ subtree # {}) =>
            /\ n \in DOMAIN after.nodes
            /\ after.nodes[n] = nodes[n]
            /\ subtree \cap DOMAIN after.nodes = {}
  /\ (past # <<>> /\ Last(past).type = "DELETE_NODE") =>
       LET node == Last(past).node
           after == undo(Store)
       IN /\ node.id \in DOMAIN after.nodes
          /\ after.nodes[node.id] = node
          /\ DOMAIN after.nodes = DOMAIN nodes \cup {node.id}
          /\ node.parentId \in DOMAIN nodes \ {node.id} =>
               after.nodes[node.parentId].childrenIds =
                 Append(nodes[node.parentId].childrenIds, node.id)

C18_Witness ==
  /\ lastAct.name = "undo"
  /\ future # <<>>
  /\ Head(future).type = "DELETE_NODE"
  /\ Head(future).node.id \in DOMAIN nodes
  /\ Len(Head(future).node.childrenIds) = 2
  /\ SeqToSet(Head(future).node.childrenIds) \cap DOMAIN nodes = {}
  /\ nodes[Head(future).node.id].childrenIds = Head(future).node.childrenIds

\* C19: deleteNode of a non-root node N of the mapping puts N and every
\* descendant of N in the deleted set and takes them out of the dirty
\* set, puts the parent of N in the dirty set, sets the map-dirty flag and
\* selects the parent of N.
C19_DeleteMarksSubtree ==
  [][ \A n \in DOMAIN nodes :
        (lastAct' = Act("deleteNode", n) /\ nodes[n].parentId # Null) =>
          LET removed == descendantsOf(nodes, n) \cup {n}
          IN /\ removed \subseteq deletedNodeIds'
             /\ removed \cap dirtyNodeIds' = {}
             /\ nodes[n].parentId \in dirtyNodeIds'
             /\ mapDirty'
             /\ selectedNodeId' = nodes[n].parentId ]_vars

C19_Witness ==
  /\ lastAct.name = "deleteNode"
  /\ past # <<>>
  /\ Last(past).type = "DELETE_NODE"
  /\ Last(past).node.id = lastAct.id
  /\ Len(Last(past).node.childrenIds) = 2
  /\ Cardinality(deletedNodeIds) = 3
  /\ dirtyNodeIds = {RootId}
  /\ selectedNodeId = RootId

\* C20: loadMap and clearMap leave selectedNodeId and editingNodeId null,
\* past and future empty, the view at its default, the dirty and deleted
\* sets empty and the map-dirty flag false, whatever the state before;
\* loadMap records no command.
ResetToDefaults(s) ==
  /\ s.selectedNodeId = Null
  /\ s.editingNodeId = Null
  /\ s.past = <<>>
  /\ s.future = <<>>
  /\ s.view = [scale |-> [num |-> 1, den |-> 1], panX |-> 0, panY |-> 0]
  /\ s.dirtyNodeIds = {}
  /\ s.deletedNodeIds = {}
  /\ s.mapDirty = FALSE

C20_LoadAndClearReset ==
  /\ \A doc \in LoadableDocs : ResetToDefaults(loadMap(Store, RootId, doc))
  /\ ResetToDefaults(clearMap(Store))
  /\ lastAct.name \in {"loadMap", "clearMap"} => ResetToDefaults(Store)

\* nothing is at its default: the state loadMap and clearMap are applied to
C20_Witness ==
  /\ selectedNodeId # Null
  /\ editingNodeId # Null
  /\ past # <<>>
  /\ future # <<>>
  /\ view.panX # 0
  /\ dirtyNodeIds # {}
  /\ deletedNodeIds # {}
  /\ mapDirty
  /\ ResetToDefaults(loadMap(Store, RootId, nodes))
  /\ ResetToDefaults(clearMap(Store))

\* C21: in every reachable state view.scale lies in [0.3, 3], whatever
\* updateView (with any scale), zoomIn, zoomOut and resetView calls were
\* made.
ScaleInRange(x) == LessEq(Frac(3, 10), x) /\ LessEq(x, Frac(3, 1))

C21_ScaleInRange == ScaleInRange(view.scale)

\* C22: from a scale in [0.3, 3], zoomIn gives min(scale * 1.2, 3) and
\* zoomOut gives max(scale / 1.2, 0.3), both within [0.3, 3] and with panX
\* and panY as they were; ten zoomIn calls from scale 1 end at 3 and ten
\* zoomOut calls from scale 1 end at 0.3.
RECURSIVE zoomInTimes(_, _)
zoomInTimes(s, k) == IF k = 0 THEN s ELSE zoomInTimes(zoomIn(s), k - 1)

RECURSIVE zoomOutTimes(_, _)
zoomOutTimes(s, k) == IF k = 0 THEN s ELSE zoomOutTimes(zoomOut(s), k - 1)

C22_ZoomClamped ==
  /\ ScaleInRange(view.scale) =>
       LET up == Times(view.scale, [num |-> 6, den |-> 5])
           down == Times(view.scale, [num |-> 5, den |-> 6])
           three == [num |-> 3, den |-> 1]
           threeTenths == [num |-> 3, den |-> 10]
       IN /\ zoomIn(Store).view.scale =
               (IF LessEq(up, three) THEN up ELSE three)
          /\ zoomOut(Store).view.scale =
               (IF LessEq(threeTenths, down) THEN down ELSE threeTenths)
          /\ ScaleInRange(zoomIn(Store).view.scale)
          /\ ScaleInRange(zoomOut(Store).view.scale)
          /\ zoomIn(Store) = [Store EXCEPT !.view.scale = zoomIn(Store).view.scale]
          /\ zoomOut(Store) = [Store EXCEPT !.view.scale = zoomOut(Store).view.scale]
  /\ zoomInTimes(resetView(Store), 10).view =
       [scale |-> [num |-> 3, den |-> 1], panX |-> 0, panY |-> 0]
  /\ zoomOutTimes(resetView(Store), 10).view =
       [scale |-> [num |-> 3, den |-> 10], panX |-> 0, panY |-> 0]
  /\ \A k \in 0..10 :
       /\ ScaleInRange(zoomInTimes(resetView(Store), k).view.scale)
       /\ ScaleInRange(zoomOutTimes(resetView(Store), k).view.scale)

\* ten calls of zoomIn in a row, on a view that was panned
C22_Witness ==
  /\ lastAct.name = "zoomIn"
  /\ zoomCalls >= 10
  /\ view.scale = [num |-> 3, den |-> 1]
  /\ view.panX # 0

\* C23: clearNodeOffset of a node of the mapping removes the manual offset
\* of that node only: its descendants and every other node are as before,
\* and so are past and future (the call is not recorded).
C23_ClearOffsetIsLocal ==
  \A n \in DOMAIN nodes :
    LET after == clearNodeOffset(Store, n)
    IN /\ DOMAIN after.nodes = DOMAIN nodes
       /\ after.nodes[n] = [nodes[n] EXCEPT !.manualOffset = NoOffset]
       /\ \A m \in DOMAIN nodes \ {n} : after.nodes[m] = nodes[m]
       /\ after.past = past
       /\ after.future = future

\* the offset of a dragged parent was cleared, the child keeps its own
C23_Witness ==
  /\ lastAct.name = "clearNodeOffset"
  /\ lastAct.id \in DOMAIN nodes
  /\ nodes[lastAct.id].manualOffset = NoOffset
  /\ \E m \in descendantsOf(nodes, lastAct.id) : nodes[m].manualOffset # NoOffset
  /\ past # <<>>
  /\ Last(past).type = "SET_OFFSET"
  /\ Last(past).nodeId = lastAct.id

\* C24: updateConnectionStyle(n, {connectionColor: undefined}) leaves the
\* style of n without connectionColor, leaves every style field other than
\* connectionColor and connectionDashed as it was, and sets the map-dirty
\* flag.
C24_UndefinedClearsColour ==
  \A n \in DOMAIN nodes :
    LET after == updateConnectionStyle(Store, n, [connectionColor |-> Undefined])
        style == after.nodes[n].style
    IN /\ "connectionColor" \notin DOMAIN style
       /\ \A f \in (DOMAIN style \cup DOMAIN nodes[n].style)
                     \ {"connectionColor", "connectionDashed"} :
            /\ f \in DOMAIN style
            /\ f \in DOMAIN nodes[n].style
            /\ style[f] = nodes[n].style[f]
       /\ after.mapDirty

\* C25: updateNode of a node of the mapping puts the id of that node in
\* the dirty set and changes no other node; it sets the map-dirty flag
\* when the patch has a text, and leaves the flag as it was when the patch
\* has none.
Patches ==
  { [text |-> "edited"], [style |-> [color |-> "green"]],
    [style |-> NoStyle], [text |-> "edited", style |-> [color |-> "green"]] }

C25_UpdateMarksDirty ==
  /\ \A n \in DOMAIN nodes : \A patch \in Patches : \A skipHistory \in BOOLEAN :
       LET after == updateNode(Store, n, patch, skipHistory)
       IN /\ after.dirtyNodeIds = dirtyNodeIds \cup {n}
          /\ DOMAIN after.nodes = DOMAIN nodes
          /\ \A m \in DOMAIN nodes \ {n} : after.nodes[m] = nodes[m]
          /\ after.mapDirty = (mapDirty \/ "text" \in DOMAIN patch)
  /\ (lastAct.name = "updateNode" /\ lastAct.id \in DOMAIN nodes) =>
       (lastAct.id \in dirtyNodeIds /\ mapDirty)

\* a patch without text was applied after a save: the node is dirty, the
\* map is not
C25_Witness ==
  /\ lastAct.name = "redo"
  /\ past # <<>>
  /\ Last(past).type = "UPDATE_NODE"
  /\ "text" \notin DOMAIN Last(past).after
  /\ Last(past).nodeId \in dirtyNodeIds
  /\ ~mapDirty

\* C26: computeLayout depends on the tree structure only: two mappings
\* with the same root, the same ids and the same childrenIds sequences get
\* the same positions, whatever the text, style, manual offset and parent
\* reference of their nodes.
Redressed(ns) ==
  [id \in DOMAIN ns |->
     [id |-> id, parentId |-> Null, text |-> "other",
      childrenIds |-> ns[id].childrenIds,
      manualOffset |-> <<NODE_WIDTH, NODE_HEIGHT>>,
      style |-> [color |-> "green"]]]

C26_LayoutFromStructureOnly ==
  /\ computeLayout(Redressed(nodes), currentMap) = computeLayout(nodes, currentMap)
  /\ \A n \in DOMAIN nodes :
       computeLayout(Put(nodes, n, Redressed(nodes)[n]), currentMap)
         = computeLayout(nodes, currentMap)

\* a tree of three levels in which a node has two children
C26_Witness ==
  /\ Cardinality(DOMAIN computeLayout(nodes, currentMap)) = 4
  /\ \E n \in DOMAIN nodes : Len(nodes[n].childrenIds) = 2
  /\ \E n \in DOMAIN nodes :
       /\ nodes[n].parentId \in DOMAIN nodes
       /\ nodes[nodes[n].parentId].parentId \in DOMAIN nodes
  /\ Redressed(nodes) # nodes

\* C27: getFinalPosition gives (0,0) when there is no computed position,
\* the computed position when there is no manual offset, and their sum
\* otherwise; the offset calculateOffset gives for a desired position
\* brings getFinalPosition to exactly that position.
C27_FinalPositionAndOffset ==
  (calc.last = "getFinalPosition") =>
    /\ calc.computedPos = <<>> => calc.result = <<0, 0>>
    /\ (calc.computedPos # <<>> /\ calc.manualOffset = <<>>) =>
         calc.result = calc.computedPos
    /\ (calc.computedPos # <<>> /\ calc.manualOffset # <<>>) =>
         /\ calc.result[1] = calc.computedPos[1] + calc.manualOffset[1]
         /\ calc.result[2] = calc.computedPos[2] + calc.manualOffset[2]
    /\ calc.dragged =>
         /\ calc.manualOffset[1] = calc.newPos[1] - calc.computedPos[1]
         /\ calc.manualOffset[2] = calc.newPos[2] - calc.computedPos[2]
         /\ calc.result = calc.newPos

\* a drag to another place than the computed one, then the final position
C27_Witness ==
  /\ calc.last = "getFinalPosition"
  /\ calc.dragged
  /\ calc.newPos # calc.computedPos
  /\ calc.result = calc.newPos

\* C28: with dx, dy the differences of the centres of child and parent,
\* |dx| >= |dy| selects right -> left when dx >= 0 and left -> right
\* otherwise; |dx| < |dy| selects bottom -> top when dy >= 0 and
\* top -> bottom otherwise; a tie |dx| = |dy| selects the horizontal pair,
\* coincident centres right -> left.
C28_AnchorEdges ==
  (calc.last = "getAnchorEdges") =>
    LET dx == calc.childPos[1] - calc.parentPos[1]
        dy == calc.childPos[2] - calc.parentPos[2]
        wide == dx * dx >= dy * dy
        pair == <<calc.result.parentAnchor, calc.result.childAnchor>>
    IN /\ (wide /\ dx >= 0) => pair = <<"right", "left">>
       /\ (wide /\ dx < 0) => pair = <<"left", "right">>
       /\ (~wide /\ dy >= 0) => pair = <<"bottom", "top">>
       /\ (~wide /\ dy < 0) => pair = <<"top", "bottom">>
       /\ (dx = dy \/ dx = -dy) => pair[1] \in {"right", "left"}
       /\ (dx = 0 /\ dy = 0) => pair = <<"right", "left">>

\* a tie with the child below and to the left of the parent
C28_Witness ==
  /\ calc.last = "getAnchorEdges"
  /\ calc.childPos[1] - calc.parentPos[1] = -2
  /\ calc.childPos[2] - calc.parentPos[2] = 2
  /\ calc.result = [parentAnchor |-> "left", childAnchor |-> "right"]

\* C29: the auto-save empties the dirty set, the deleted set and the
\* map-dirty flag only in the step in which the last write of the flush
\* (updateMap, after saveNodes and deleteNodes) has succeeded; every other
\* step of the service, a failing write in particular, leaves the three
\* exactly as they were.
ServiceSteps ==
  {"enable", "disable", "triggerSave", "timerFires", "saveNow",
   "writeSucceeds", "writeFails"}

C29_ClearedAfterLastWrite ==
  [][ lastAct'.name \in ServiceSteps =>
        IF lastAct'.name = "writeSucceeds" /\ autoSave.pc = "updateMap"
        THEN dirtyNodeIds' = {} /\ deletedNodeIds' = {} /\ mapDirty' = FALSE
        ELSE UNCHANGED <<dirtyNodeIds, deletedNodeIds, mapDirty>> ]_vars

\* a write has failed and the node changes, the deletion and the preview
\* are all still pending
C29_Witness ==
  /\ lastAct.name = "writeFails"
  /\ ~autoSave.isSaving
  /\ dirtyNodeIds # {}
  /\ deletedNodeIds # {}
  /\ mapDirty

\* C30, as the specification states it: the flush clears the dirty state
\* as soon as it is attempted, so that while the writes are under way and
\* after a write has failed the dirty set and the deleted set are empty
\* and the map-dirty flag is false.
C30_ClearedOnAttempt ==
  (autoSave.isSaving \/ lastAct.name = "writeFails") =>
    (dirtyNodeIds = {} /\ deletedNodeIds = {} /\ mapDirty = FALSE)

\* C30, amended: attempting the flush clears nothing. The step that
\* starts a flush leaves the dirty set, the deleted set and the map-dirty
\* flag as they are, with changes pending; and a change that is pending
\* when a write fails is still pending afterwards, the service idle again.
C30_PendingSurvivesFailure ==
  [][ /\ (lastAct'.name \in {"timerFires", "saveNow"}
           /\ ~autoSave.isSaving /\ autoSave'.isSaving) =>
            /\ hasPendingChanges(Store)
            /\ dirtyNodeIds' = dirtyNodeIds
            /\ deletedNodeIds' = deletedNodeIds
            /\ mapDirty' = mapDirty
      /\ lastAct'.name = "writeFails" =>
            /\ dirtyNodeIds \subseteq dirtyNodeIds'
            /\ deletedNodeIds \subseteq deletedNodeIds'
            /\ mapDirty => mapDirty'
            /\ ~autoSave'.isSaving ]_vars

\* a write was rejected: the deletion and the change of the root are
\* still pending
C30_Witness ==
  /\ lastAct.name = "writeFails"
  /\ autoSave.pc = "idle"
  /\ hasPendingChanges(Store)
  /\ deletedNodeIds # {}
  /\ dirtyNodeIds = {RootId}

\* a loaded document whose mapping is a tree: parent and children
\* references agree, no child is listed twice, one root, no node detached
NoDuplicates(seq) == \A i \in 1..Len(seq) : \A j \in 1..Len(seq) : seq[i] = seq[j] => i = j

WellFormed ==
  /\ Loaded
  /\ C1_ParentChildConsistent
  /\ C10_SingleTree
  /\ \A p \in DOMAIN nodes : NoDuplicates(nodes[p].childrenIds)

\* number of parentId steps from n up to the root
RECURSIVE depthOf(_, _, _)
depthOf(ns, n, fuel) ==
  IF fuel = 0 \/ n \notin DOMAIN ns THEN 0
  ELSE IF ns[n].parentId = Null THEN 0
  ELSE 1 + depthOf(ns, ns[n].parentId, fuel - 1)

\* C31: for a well-formed tree computeLayout puts the root at
\* (-NODE_WIDTH/2, -NODE_HEIGHT/2), its centre on the origin, and every
\* node at depth d exactly d * SPACING_X to the right of the root.
C31_RootCentredDepthColumns ==
  WellFormed =>
    LET layout == computeLayout(nodes, currentMap)
    IN /\ DOMAIN layout = DOMAIN nodes
       /\ 2 * layout[currentMap][1] + NODE_WIDTH * Scale = 0
       /\ 2 * layout[currentMap][2] + NODE_HEIGHT * Scale = 0
       /\ \A n \in DOMAIN nodes :
            layout[n][1] - layout[currentMap][1]
              = depthOf(nodes, n, Cardinality(DOMAIN nodes)) * SPACING_X * Scale

\* a well-formed tree of three levels whose root has two subtrees
C31_Witness ==
  /\ WellFormed
  /\ Cardinality(DOMAIN nodes) = 4
  /\ Len(nodes[currentMap].childrenIds) = 2
  /\ \E n \in DOMAIN nodes : depthOf(nodes, n, 4) = 2
  /\ computeLayout(nodes, currentMap)[currentMap][2] # 0

\* the children of n that resolve to a node, in the order of childrenIds
resolvable(ns, n) == LET Present(c) == c \in DOMAIN ns IN SelectSeq(ns[n].childrenIds, Present)

\* the leaves below n, in depth-first child order
RECURSIVE leavesOf(_, _, _)
leavesOf(ns, n, fuel) ==
  IF fuel = 0 \/ n \notin DOMAIN ns THEN <<>>
  ELSE IF resolvable(ns, n) = <<>> THEN <<n>>
  ELSE LET kids == resolvable(ns, n)
           upTo[i \in 0..Len(kids)] ==
             IF i = 0 THEN <<>>
             ELSE upTo[i - 1] \o leavesOf(ns, kids[i], fuel - 1)
       IN upTo[Len(kids)]

\* seq without the later occurrences of an element
Distinct(seq) ==
  LET First(i) == \A j \in 1..(i - 1) : seq[j] # seq[i]
      kept[i \in 0..Len(seq)] ==
        IF i = 0 THEN <<>>
        ELSE IF First(i) THEN Append(kept[i - 1], seq[i]) ELSE kept[i - 1]
  IN kept[Len(seq)]

\* C32: in the computed layout the y of every internal node is the
\* midpoint of the y of its first and of its last resolvable child, and
\* the leaves, in depth-first child order, are NODE_HEIGHT + SPACING_Y
\* apart from one to the next.
C32_MidpointAndLeafSpacing ==
  Loaded =>
    LET layout == computeLayout(nodes, currentMap)
        leaves == Distinct(leavesOf(nodes, currentMap, Cardinality(DOMAIN nodes) + 1))
    IN /\ \A n \in DOMAIN layout :
            LET kids == resolvable(nodes, n)
            IN kids # <<>> =>
                 2 * layout[n][2] = layout[kids[1]][2] + layout[kids[Len(kids)]][2]
       /\ \A i \in 1..(Len(leaves) - 1) :
            layout[leaves[i + 1]][2] - layout[leaves[i]][2]
              = (NODE_HEIGHT + SPACING_Y) * Scale

\* the nodes reached from the ids in from through child ids that resolve
RECURSIVE reachedFrom(_, _, _)
reachedFrom(ns, from, fuel) ==
  LET next == from \cup { c \in DOMAIN ns :
                            \E p \in from : c \in SeqToSet(ns[p].childrenIds) }
  IN IF fuel = 0 \/ next = from THEN from ELSE reachedFrom(ns, next, fuel - 1)

AllDangling(ns, n) ==
  /\ ns[n].childrenIds # <<>>
  /\ SeqToSet(ns[n].childrenIds) \cap DOMAIN ns = {}

\* C33: computeLayout gives the empty map when rootId is missing or is
\* not a key of the mapping; otherwise it gives a position to exactly the
\* nodes reached from the root through child ids that resolve, and a node
\* whose child ids all dangle is placed as the leaf it would be without
\* them.
C33_DanglingIdsSkipped ==
  /\ computeLayout(nodes, Null) = EmptyMap
  /\ \A id \in Ids \ DOMAIN nodes : computeLayout(nodes, id) = EmptyMap
  /\ \A id \in DOMAIN nodes :
       DOMAIN computeLayout(nodes, id)
         = reachedFrom(nodes, {id}, Cardinality(DOMAIN nodes))
  /\ \A n \in DOMAIN nodes :
       AllDangling(nodes, n) =>
         /\ computeLayout(nodes, currentMap)
              = computeLayout([nodes EXCEPT ![n].childrenIds = <<>>], currentMap)
         /\ layoutNode(nodes, n, 1, 0, EmptyMap)
              = [height |-> (NODE_HEIGHT + SPACING_Y) * Scale,
                 layout |-> Put(EmptyMap, n, <<SPACING_X * Scale, 0>>)]

\* a node of the layout lists only children that are gone
C33_Witness ==
  /\ Loaded
  /\ \E n \in DOMAIN computeLayout(nodes, currentMap) : AllDangling(nodes, n)
  /\ Cardinality(DOMAIN computeLayout(nodes, currentMap)) = 3
  /\ deletedNodeIds # {}

\* ---------------------------------------------------------------- C34
\* C34: debouncing works on the timer only. After every step at most one
\* timeout is pending and at most one performSave is between its first
\* await and its end; a triggerSave, a disable, a saveNow or a firing timer
\* leaves the dirty ids, the deleted ids and the map-dirty flag as they were,
\* and a triggerSave that found a timeout pending leaves exactly the new one.
TimerSteps == {"enable", "disable", "triggerSave", "saveNow", "timerFires"}

C34_DebounceOnTimerOnly ==
  [][ /\ Cardinality(autoSave'.timers) <= 1
      /\ autoSave'.inFlight <= 1
      /\ autoSave'.inFlight = (IF autoSave'.isSaving THEN 1 ELSE 0)
      /\ lastAct'.name \in TimerSteps =>
           /\ dirtyNodeIds' = dirtyNodeIds
           /\ deletedNodeIds' = deletedNodeIds
           /\ mapDirty' = mapDirty
           /\ nodes' = nodes
      /\ lastAct'.name = "triggerSave" /\ autoSave.isEnabled =>
           /\ autoSave'.timers = {autoSave'.saveTimeout}
           /\ autoSave'.saveTimeout \notin autoSave.timers
      /\ lastAct'.name \in {"disable", "saveNow"} =>
           /\ autoSave'.timers = {}
           /\ autoSave'.saveTimeout = Null ]_vars

\* a second triggerSave has superseded a pending timeout while a save was in
\* flight and changes were pending
C34_Witness ==
  /\ lastAct.name = "triggerSave"
  /\ autoSave.isSaving
  /\ Cardinality(autoSave.timers) = 1
  /\ autoSave.saveTimeout = "t2"
  /\ hasPendingChanges(Store)
\* ---------------------------------------------------------------- C35
\* C35: no id of the deleted set is the id of a node of the mapping, so the
\* next flush asks the backend to delete no node that is alive.
C35_DeletedIdsAreGone == deletedNodeIds \cap DOMAIN nodes = {}
\* ---------------------------------------------------------------- C36
\* the nodes that were changed and the ids that were deleted since the
\* flush under way read the dirty state
changedInFlight(a, s) ==
  { id \in s.dirtyNodeIds \cap DOMAIN s.nodes :
      id \notin DOMAIN a.dirtyNodes \/ a.dirtyNodes[id] # s.nodes[id] }

deletedInFlight(a, s) == s.deletedNodeIds \ a.deletedNodeIds

\* C36: a change made while a save is in flight is not lost. When the last
\* write of the flush succeeds, every node changed since the flush read the
\* dirty nodes is still dirty, every id deleted since is still in the deleted
\* set, and if there is any such node or id changes are still pending.
C36_ChangesInFlightSurvive ==
  [][ (lastAct'.name = "writeSucceeds" /\ autoSave.pc = "updateMap") =>
        /\ changedInFlight(autoSave, Store) \subseteq dirtyNodeIds'
        /\ deletedInFlight(autoSave, Store) \subseteq deletedNodeIds'
        /\ (changedInFlight(autoSave, Store) # {}
              \/ deletedInFlight(autoSave, Store) # {})
             => (dirtyNodeIds' # {} \/ deletedNodeIds' # {} \/ mapDirty') ]_vars
\* ---------------------------------------------------------------- C37
\* the port holds every node of the mapping with its latest content
Written == \A id \in DOMAIN nodes :
             id \in DOMAIN autoSave.port /\ autoSave.port[id] = nodes[id]

\* C37: with auto-save enabled, writes that succeed and triggerSave called
\* after every change, from some point on every node of the mapping is in the
\* port with its latest content and no change is pending.
C37_EventuallyWritten ==
  <>[](Loaded => (Written /\ ~hasPendingChanges(Store)))
\* ---------------------------------------------------------------- C38
\* C38: the selection and the edit cursor are each null or the id of a node
\* of the mapping.
C38_CursorsOnPresentNodes ==
  /\ selectedNodeId = Null \/ selectedNodeId \in DOMAIN nodes
  /\ editingNodeId = Null \/ editingNodeId \in DOMAIN nodes
\* ---------------------------------------------------------------- C39
\* C39: for a well-formed tree computeLayout gives every node a position,
\* distinct nodes distinct positions, and two nodes at the same depth
\* positions whose y differ by at least NODE_HEIGHT + SPACING_Y; so no two
\* node boxes of NODE_WIDTH by NODE_HEIGHT overlap.
C39_NoOverlap ==
  WellFormed =>
    LET layout == computeLayout(nodes, currentMap)
        depth(n) == depthOf(nodes, n, Cardinality(DOMAIN nodes))
    IN /\ DOMAIN layout = DOMAIN nodes
       /\ \A a \in DOMAIN nodes : \A b \in DOMAIN nodes \ {a} :
            /\ layout[a] # layout[b]
            /\ depth(a) = depth(b) =>
                 Abs(layout[a][2] - layout[b][2])
                   >= (NODE_HEIGHT + SPACING_Y) * Scale
            /\ \/ Abs(layout[a][1] - layout[b][1]) >= NODE_WIDTH * Scale
               \/ Abs(layout[a][2] - layout[b][2]) >= NODE_HEIGHT * Scale

\* a well-formed tree of seven nodes with two nodes at depth two under
\* different parents, one of them added in this session
C39_Witness ==
  /\ WellFormed
  /\ Cardinality(DOMAIN nodes) = 7
  /\ \E a \in DOMAIN nodes : \E b \in DOMAIN nodes :
       /\ depthOf(nodes, a, 7) = 2 /\ depthOf(nodes, b, 7) = 2
       /\ nodes[a].parentId # nodes[b].parentId
       /\ a \in NewIds
       /\ nodes[a].childrenIds # <<>>
====
